---- MODULE Spec2Model ----
(***************************************************************************)
(* Edge decision logic of the IVS DVR demo: the two Lambda(at)Edge origin   *)
(* request handlers                                                         *)
(*   modifyRenditionPlaylist      (cdk/lambdas/modifyRenditionPlaylist.ts)  *)
(*   getLatestRecordingStartMeta  (cdk/lambdas/getLatestRecordingStartMeta) *)
(* One invocation is a run of the handler from the event to the returned    *)
(* response (or to an exception that escapes the handler).  A step is the  *)
(* code the handler runs without giving up the control: from its start or   *)
(* from the answer to an awaited call up to the next call it issues, or to  *)
(* its return.  Between the issue of a call and its answer the handler is   *)
(* suspended with the call in flight; the answer is chosen                  *)
(* nondeterministically among the results the collaborator can give.        *)
(*                                                                          *)
(* Strings that the code takes apart (ARNs, paths, playlist bodies) are     *)
(* sequences of one-character strings; strings that are only copied or      *)
(* concatenated are TLA+ strings.  A character that a TLA+ string cannot   *)
(* hold is written as its code point, "U+00A0".  An optional value is a     *)
(* sequence of length 0 (undefined) or 1.                                   *)
(***************************************************************************)
EXTENDS Integers, Sequences, FiniteSets, TLC

(***************************************************************************)
(* Program constants                                                        *)
(***************************************************************************)
WRITE_LATENCY_BUFFER == 2000
PLAYLIST_UPDATE_DELAY == 30000
TOTAL_PLAYLIST_UPDATE_DELAY == PLAYLIST_UPDATE_DELAY + WRITE_LATENCY_BUFFER
ONE_YEAR == 31536000

StreamLive == "LIVE"
StreamOffline == "OFFLINE"

SourcePosition ==
  [Overview |-> "OVERVIEW", Instruments |-> "INSTRUMENTS", Captain |-> "CAPTAIN",
   FO |-> "FO", Unknown |-> "UNKNOWN"]

\* the literal of removeEndlist, "#EXT-X-ENDLIST"
ENDLIST == <<"#","E","X","T","-","X","-","E","N","D","L","I","S","T">>

(***************************************************************************)
(* Bounds of the model                                                      *)
(***************************************************************************)
MaxPieces == 3
MaxRenditions == 2

(***************************************************************************)
(* JavaScript string operations used by the handlers                        *)
(***************************************************************************)
\* String.prototype.indexOf: the least 1-based position of pat in s, 0 if none
IndexOf(s, pat) ==
  LET hits == {i \in 1..(Len(s) - Len(pat) + 1) : SubSeq(s, i, i + Len(pat) - 1) = pat}
  IN IF hits = {} THEN 0 ELSE CHOOSE i \in hits : \A j \in hits : i <= j

\* String.prototype.replace(pattern: string, ""): the FIRST occurrence only
ReplaceFirst(s, pat) ==
  LET i == IndexOf(s, pat)
  IN IF i = 0 THEN s ELSE SubSeq(s, 1, i - 1) \o SubSeq(s, i + Len(pat), Len(s))

\* ECMAScript WhiteSpace: TAB, VT, FF, SP, NBSP, ZWNBSP and the category Zs
WhiteSpace ==
  {"\t", "U+000B", "\f", " ", "U+00A0", "U+FEFF",
   "U+1680", "U+2000", "U+2001", "U+2002", "U+2003", "U+2004", "U+2005", "U+2006",
   "U+2007", "U+2008", "U+2009", "U+200A", "U+202F", "U+205F", "U+3000"}

\* ECMAScript LineTerminator: LF, CR, LS, PS
LineTerminators == {"\n", "\r", "U+2028", "U+2029"}

\* the characters String.prototype.trim and parseInt strip
IsSpace(c) == c \in WhiteSpace \cup LineTerminators

\* String.prototype.trim
RECURSIVE TrimStart(_)
TrimStart(s) == IF s # <<>> /\ IsSpace(Head(s)) THEN TrimStart(Tail(s)) ELSE s

RECURSIVE TrimEnd(_)
TrimEnd(s) ==
  IF s # <<>> /\ IsSpace(s[Len(s)]) THEN TrimEnd(SubSeq(s, 1, Len(s) - 1)) ELSE s

Trim(s) == TrimEnd(TrimStart(s))

\* String.prototype.split("/"): "" gives [""], "a/b" gives ["a","b"]
RECURSIVE Split(_, _)
Split(s, sep) ==
  LET i == IndexOf(s, <<sep>>)
  IN IF i = 0 THEN <<s>>
     ELSE <<SubSeq(s, 1, i - 1)>> \o Split(SubSeq(s, i + 1, Len(s)), sep)

\* arn.split("/")[1]: undefined (<<>>) when the ARN has no "/"
SplitSecond(arn) ==
  LET parts == Split(arn, "/") IN IF Len(parts) >= 2 THEN <<parts[2]>> ELSE <<>>

\* Array.prototype.includes(x) with x possibly undefined
Includes(arr, opt) == opt # <<>> /\ \E i \in 1..Len(arr) : arr[i] = opt[1]

\* removeEndlist of modifyRenditionPlaylist
removeEndlist(playlist) == Trim(ReplaceFirst(playlist, ENDLIST))

HasEndlist(s) == IndexOf(s, ENDLIST) # 0

(***************************************************************************)
(* utils.ts: createResponse, isS3Error and the results of getS3Object and   *)
(* getActiveStream                                                          *)
(***************************************************************************)
\* createResponse(status, { body, contentType, maxAge })
createResponse(status, body, contentType, maxAge) ==
  [status |-> status, body |-> body, contentType |-> contentType, maxAge |-> maxAge]

NoResponse == [status |-> 0, body |-> <<>>, contentType |-> <<>>, maxAge |-> 0]

\* an error thrown by a collaborator or by the runtime
Error(service, code) == [service |-> service, Code |-> code]
NoError == Error("none", "none")

S3Errors == {Error("S3", "NoSuchKey"), Error("S3", "AccessDenied")}
IvsErrors == {Error("IVS", "InternalServerException")}
TypeError == Error("JS", "TypeError")
SyntaxError == Error("JS", "SyntaxError")

\* isS3Error(error): the error is an S3 service exception
isS3Error(error) == error.service = "S3"

(***************************************************************************)
(* Inputs: origin request events and the results of the external calls      *)
(***************************************************************************)
ArnA == <<"c", "/", "A">>
ArnB == <<"c", "/", "B">>
ArnC == <<"c", "/", "C">>
ArnD == <<"c", "/", "D">>
ArnZ == <<"c", "/", "Z">>
ArnNoSlash == <<"c">>
BucketName == <<"b">>

\* the custom headers the stack attaches to the S3 origin
StackHeaderNames ==
  {"vod-record-bucket-name", "overview-channel-arn", "instruments-channel-arn",
   "capt-channel-arn", "fo-channel-arn"}

\* the custom headers modifyRenditionPlaylist reads
PlaylistHeaderNames ==
  {"vod-record-bucket-name", "overview-channel-arn", "screens-channel-arn",
   "capt-channel-arn", "fo-channel-arn"}

\* the custom headers getLatestRecordingStartMeta reads
MetadataHeaderNames ==
  {"vod-record-bucket-name", "overview-channel-arn", "instruments-channel-arn",
   "capt-channel-arn", "fo-channel-arn"}

HeaderDomains ==
  {StackHeaderNames, PlaylistHeaderNames, StackHeaderNames \cup PlaylistHeaderNames}

Headers(o, i, s, c, f) ==
  [n \in StackHeaderNames \cup PlaylistHeaderNames |->
     CASE n = "vod-record-bucket-name" -> BucketName
       [] n = "overview-channel-arn" -> o
       [] n = "instruments-channel-arn" -> i
       [] n = "screens-channel-arn" -> s
       [] n = "capt-channel-arn" -> c
       [] n = "fo-channel-arn" -> f]

\* role maps: all roles distinct, roles sharing an ARN, an ARN without "/"
RoleMapSamples ==
  {Headers(ArnA, ArnB, ArnB, ArnC, ArnD),
   Headers(ArnA, ArnB, ArnC, ArnC, ArnD),
   Headers(ArnA, ArnA, ArnA, ArnB, ArnB),
   Headers(ArnB, ArnA, ArnD, ArnA, ArnA),
   Headers(ArnNoSlash, ArnC, ArnC, ArnD, ArnD),
   Headers(<<>>, ArnD, ArnB, ArnD, ArnB)}

Restrict(fn, dom) == [n \in dom |-> fn[n]]

HeaderSamples == {Restrict(rm, dom) : rm \in RoleMapSamples, dom \in HeaderDomains}

\* origin.s3.path
PathSamples ==
  {<<>>, <<"/", "v", "/", "A">>, <<"/", "D", "/", "B">>, <<"/", "C">>, <<"/", "Z">>}

UriSamples == {<<"/", "k">>}

Events == [headers : HeaderSamples, path : PathSamples, uri : UriSamples]
NoEvent == [headers |-> <<>>, path |-> <<>>, uri |-> <<>>]

\* playlist bodies: concatenations of at most MaxPieces pieces
Pieces ==
  {ENDLIST, <<"#","E","X","T","-","X","-">>, <<"E","N","D","L","I","S","T">>, <<"\n">>,
   <<"\r", "\n">>}

RECURSIVE Bodies(_)
Bodies(n) ==
  IF n = 0 THEN {<<>>}
  ELSE LET shorter == Bodies(n - 1) IN shorter \cup {b \o p : b \in shorter, p \in Pieces}

PlaylistBodies == Bodies(MaxPieces)

\* Date.now() and the age of the fetched object, in milliseconds
NowSamples == {100000}
AgeSamples ==
  {-5000, -1, 0, 1, 999, 1000, 10000, 29000, 29001, 30000, 30001, 31999, 32000, 40000}

\* GetObject output: LastModified is optional
LastModifiedSamples(t) == {<<>>} \cup {<<t - a>> : a \in AgeSamples}

S3Ok(body, lastModified) ==
  [ok |-> TRUE, body |-> body, LastModified |-> lastModified, error |-> NoError]
S3Fail(error) == [ok |-> FALSE, body |-> <<>>, LastModified |-> <<>>, error |-> error]
NoObject == S3Fail(NoError)

\* getActiveStream: a stream, nothing, or a thrown service error
Stream(url, state, id) == [playbackUrl |-> url, state |-> state, streamId |-> id]
StreamSamples ==
  {Stream(url, state, id) :
     url \in {"https://live"}, state \in {StreamLive, StreamOffline}, id \in {"st-1", "st-2"}}

StreamOk(opt) == [ok |-> TRUE, stream |-> opt, error |-> NoError]
StreamFail(error) == [ok |-> FALSE, stream |-> <<>>, error |-> error]
NoStreamResult == StreamFail(NoError)

StreamResults ==
  {StreamOk(<<>>)} \cup {StreamOk(<<s>>) : s \in StreamSamples}
    \cup {StreamFail(e) : e \in IvsErrors}

\* recording-started-latest.json: the body is JSON text that is not valid,
\* JSON without media.hls (here: null), or a recording descriptor
Rendition(path, playlist) == [path |-> path, playlist |-> playlist]
RenditionSamples == {Rendition("720p60", "playlist.m3u8"), Rendition("160p30", "playlist.m3u8")}

RECURSIVE SeqsUpTo(_, _)
SeqsUpTo(S, n) ==
  IF n = 0 THEN {<<>>}
  ELSE LET shorter == SeqsUpTo(S, n - 1) IN shorter \cup {Append(q, x) : q \in shorter, x \in S}

Descriptor(path, playlist, renditions, startedAt, streamId, channelId, arn) ==
  [media |-> [hls |-> [path |-> path, playlist |-> playlist, renditions |-> renditions]],
   recording_started_at |-> startedAt, streamId |-> streamId, channelId |-> channelId,
   channel_arn |-> arn]

DescriptorSamples ==
  {Descriptor("ivs/v1/rec/media/hls", "master.m3u8", r, "2023-02-13T16:19:00Z", sid, "ch", arn) :
     r \in SeqsUpTo(RenditionSamples, MaxRenditions), sid \in {"st-1", "st-3"},
     arn \in {ArnA, ArnB, ArnC, ArnD, ArnZ}}

JsonInvalid == [json |-> "invalid"]
JsonNull == [json |-> "null"]
JsonObject(value) == [json |-> "object", value |-> value]
JsonNumber(n) == [json |-> "number", n |-> n]

DescriptorBodies == {JsonInvalid, JsonNull} \cup {JsonObject(d) : d \in DescriptorSamples}

\* the rendition playlist probed for its duration
TOTAL_SECS ==
  <<"E","X","T","-","X","-","T","W","I","T","C","H","-","T","O","T","A","L","-","S","E","C","S",":">>

RenditionTexts ==
  {<<"#", "\n">>,
   <<"#", "\n", "#">> \o TOTAL_SECS \o <<"1", "2", "\n", "#">>,
   <<"#">> \o TOTAL_SECS \o <<"7", ".", "5">>,
   <<"#">> \o TOTAL_SECS \o <<"\n", "#">> \o TOTAL_SECS \o <<"0">>,
   <<"#">> \o TOTAL_SECS \o <<"x", "\n">>,
   <<"#">> \o TOTAL_SECS,
   <<"#">> \o TOTAL_SECS \o <<"1", "2", "\r", "\n", "#">>,
   <<"#">> \o TOTAL_SECS \o <<"\r", "\n", "#">> \o TOTAL_SECS \o <<"9", "\r", "\n">>,
   <<"#">> \o TOTAL_SECS \o <<"\r">>,
   <<"#">> \o TOTAL_SECS \o <<"\t", "5", "\n">>,
   <<"#">> \o TOTAL_SECS \o <<"0", "x", "1", "F", "\n">>}

(***************************************************************************)
(* State                                                                    *)
(***************************************************************************)
VARIABLES
  handler,     \* which handler the invocation runs
  pc,          \* position of the invocation
  event,       \* the CloudFront origin request
  channelArn,  \* playlist handler: the ARN chosen for the liveness query
  now,         \* Date.now() read by the playlist handler
  s3obj,       \* result of the primary getS3Object
  live,        \* result of getActiveStream
  calls,       \* external calls issued so far, in order
  answered,    \* number of those calls that have been answered
  thrown,      \* error that escaped the handler, or NoError
  meta,        \* metadata handler: the recordingStartedMetadata object
  probe,       \* metadata handler: result of the rendition getS3Object
  response     \* the returned response

vars ==
  <<handler, pc, event, channelArn, now, s3obj, live, meta, probe, calls, answered,
    thrown, response>>

\* no metadata object has been built
NoMetadata == [isChannelLive |-> <<>>]

Call(op, arg) == [op |-> op, arg |-> arg]

\* const key = uri.slice(1)
Key(uri) == IF uri = <<>> THEN <<>> ELSE Tail(uri)

Init ==
  /\ handler = "none"
  /\ pc = "idle"
  /\ event = NoEvent
  /\ channelArn = <<>>
  /\ now = 0
  /\ s3obj = NoObject
  /\ live = NoStreamResult
  /\ meta = NoMetadata
  /\ probe = NoObject
  /\ calls = <<>>
  /\ answered = 0
  /\ thrown = NoError
  /\ response = NoResponse

\* CloudFront invokes one of the two handlers on an origin request
Invoke(h, ev) ==
  /\ pc = "idle"
  /\ handler' = h
  /\ event' = ev
  /\ pc' = "start"
  /\ UNCHANGED <<channelArn, now, s3obj, live, meta, probe, calls, answered, thrown,
                  response>>

(***************************************************************************)
(* modifyRenditionPlaylist                                                  *)
(***************************************************************************)
\* customHeaders[name][0].value || "" for every name read: a missing header
\* is an undefined array and indexing it throws a TypeError
HeadersPresent(headers, names) == names \subseteq DOMAIN headers

\* lines 54-78: the ARN whose channel id is a segment of the origin path
ResolveChannelArn(path, overviewChannelArn, screensChannelArn, captChannelArn, foChannelArn) ==
  LET splitPath == Split(path, "/")
  IN IF Includes(splitPath, SplitSecond(overviewChannelArn)) THEN overviewChannelArn
     ELSE IF Includes(splitPath, SplitSecond(screensChannelArn)) THEN screensChannelArn
     ELSE IF Includes(splitPath, SplitSecond(captChannelArn)) THEN captChannelArn
     ELSE IF Includes(splitPath, SplitSecond(foChannelArn)) THEN foChannelArn
     ELSE <<>>

\* LastModified?.getTime() || 0
LastModifiedTime(lastModified) == IF lastModified = <<>> THEN 0 ELSE lastModified[1]

TimeSinceLastModified(t, lastModified) == t - LastModifiedTime(lastModified)

Max(a, b) == IF a >= b THEN a ELSE b

\* variant of FreshMaxAge that counts down from the 32 second window
FreshMaxAge_TotalDelay(timeSinceLastModified) ==
  Max(0, TOTAL_PLAYLIST_UPDATE_DELAY - timeSinceLastModified) \div 1000

\* Math.floor(Math.max(0, PLAYLIST_UPDATE_DELAY - timeSinceLastModified) / 1000)
FreshMaxAge(timeSinceLastModified) ==
  Max(0, PLAYLIST_UPDATE_DELAY - timeSinceLastModified) \div 1000

\* variant of IsFresh that leaves out the write latency buffer
IsFresh_NoBuffer(timeSinceLastModified) == timeSinceLastModified < PLAYLIST_UPDATE_DELAY

IsFresh(timeSinceLastModified) == timeSinceLastModified < TOTAL_PLAYLIST_UPDATE_DELAY

\* const isChannelLive = channelState === StreamState.StreamLive
IsChannelLive(activeStream) == activeStream # <<>> /\ activeStream[1].state = StreamLive

\* lines 92-99 and 117
FreshResponse(playlist, timeSinceLastModified) ==
  createResponse(200, <<removeEndlist(playlist)>>, <<>>, FreshMaxAge(timeSinceLastModified))

\* variant of StaleResponse with the two outcomes exchanged
StaleResponse_Exchanged(playlist, activeStream) ==
  IF IsChannelLive(activeStream)
    THEN createResponse(200, <<playlist>>, <<>>, ONE_YEAR)
    ELSE createResponse(200, <<removeEndlist(playlist)>>, <<>>, 0)

\* lines 104-117
StaleResponse(playlist, activeStream) ==
  IF IsChannelLive(activeStream)
    THEN createResponse(200, <<removeEndlist(playlist)>>, <<>>, 0)
    ELSE createResponse(200, <<playlist>>, <<>>, ONE_YEAR)

\* lines 118-121
PlaylistErrorResponse == createResponse(500, <<>>, <<>>, 0)

\* variant of PlaylistAfterStream that takes a failed query for "no stream"
PlaylistAfterStream_FailOpen(playlist, result) == StaleResponse(playlist, result.stream)

\* lines 102-121: a thrown getActiveStream error goes to the catch block
PlaylistAfterStream(playlist, result) ==
  IF result.ok THEN StaleResponse(playlist, result.stream) ELSE PlaylistErrorResponse

\* lines 37-87: read the configuration headers, resolve the channel, issue
\* getS3Object(key, bucketName) and suspend at the await
PL_ReadConfig ==
  /\ handler = "playlist" /\ pc = "start"
  /\ IF HeadersPresent(event.headers, PlaylistHeaderNames)
       THEN /\ channelArn' = ResolveChannelArn(event.path,
                                event.headers["overview-channel-arn"],
                                event.headers["screens-channel-arn"],
                                event.headers["capt-channel-arn"],
                                event.headers["fo-channel-arn"])
            /\ calls' = Append(calls, Call("getS3Object", Key(event.uri)))
            /\ pc' = "await_fetch"
            /\ UNCHANGED thrown
       ELSE /\ thrown' = TypeError
            /\ pc' = "done"
            /\ UNCHANGED <<channelArn, calls>>
  /\ UNCHANGED <<handler, event, now, s3obj, live, meta, probe, answered, response>>

\* lines 84-121: getS3Object answers; a thrown error goes to the catch block,
\* a fresh playlist is returned at once (Date.now() is read after the
\* answer), for a stale one getActiveStream(channelArn) is issued
PL_GetS3Object ==
  /\ handler = "playlist" /\ pc = "await_fetch"
  /\ answered' = answered + 1
  /\ \E t \in NowSamples :
       \E res \in {S3Fail(e) : e \in S3Errors}
                    \cup {S3Ok(b, lm) : b \in PlaylistBodies, lm \in LastModifiedSamples(t)} :
         /\ s3obj' = res
         /\ IF ~res.ok
              THEN /\ response' = PlaylistErrorResponse
                   /\ pc' = "done"
                   /\ UNCHANGED <<now, calls>>
              ELSE /\ now' = t
                   /\ IF IsFresh(TimeSinceLastModified(t, res.LastModified))
                        THEN /\ response' = FreshResponse(res.body,
                                              TimeSinceLastModified(t, res.LastModified))
                             /\ pc' = "done"
                             /\ UNCHANGED calls
                        ELSE /\ calls' = Append(calls, Call("getActiveStream", channelArn))
                             /\ pc' = "await_stream"
                             /\ UNCHANGED response
  /\ UNCHANGED <<handler, event, channelArn, live, meta, probe, thrown>>

\* lines 102-121: getActiveStream answers, the stale branch or the catch block
PL_GetActiveStream ==
  /\ handler = "playlist" /\ pc = "await_stream"
  /\ answered' = answered + 1
  /\ \E res \in StreamResults :
       /\ live' = res
       /\ response' = PlaylistAfterStream(s3obj.body, res)
  /\ pc' = "done"
  /\ UNCHANGED <<handler, event, channelArn, now, s3obj, meta, probe, calls, thrown>>

(***************************************************************************)
(* getLatestRecordingStartMeta                                              *)
(***************************************************************************)
\* JSON.parse(jsonBody) followed by the destructuring of lines 67-75
ParseDescriptor(body) ==
  CASE body.json = "invalid" -> [ok |-> FALSE, error |-> SyntaxError]
    [] body.json = "null" -> [ok |-> FALSE, error |-> TypeError]
    [] OTHER -> [ok |-> TRUE, error |-> NoError]

\* variant of sourcePosition that tests the roles in the reverse order
sourcePosition_Reversed(arn, overviewChannelArn, instrumentsChannelArn, captChannelArn, foChannelArn) ==
  IF arn = foChannelArn THEN SourcePosition.FO
  ELSE IF arn = captChannelArn THEN SourcePosition.Captain
  ELSE IF arn = instrumentsChannelArn THEN SourcePosition.Instruments
  ELSE IF arn = overviewChannelArn THEN SourcePosition.Overview
  ELSE SourcePosition.Unknown

\* lines 89-103
sourcePosition(arn, overviewChannelArn, instrumentsChannelArn, captChannelArn, foChannelArn) ==
  IF arn = overviewChannelArn THEN SourcePosition.Overview
  ELSE IF arn = instrumentsChannelArn THEN SourcePosition.Instruments
  ELSE IF arn = captChannelArn THEN SourcePosition.Captain
  ELSE IF arn = foChannelArn THEN SourcePosition.FO
  ELSE SourcePosition.Unknown

\* variant of LivePlaybackUrl that passes on the URL of any stream
LivePlaybackUrl_Ungated(activeStream) ==
  IF activeStream # <<>> THEN activeStream[1].playbackUrl ELSE ""

\* livePlaybackUrl: isChannelLive ? livePlaybackUrl : ""
LivePlaybackUrl(activeStream) ==
  IF IsChannelLive(activeStream) THEN activeStream[1].playbackUrl ELSE ""

\* `${path}/${playlist}`
MasterKey(hls) == hls.path \o "/" \o hls.playlist

\* `${path}/${highestRendition.path}/${highestRendition.playlist}`
RenditionKey(hls, highestRendition) ==
  hls.path \o "/" \o highestRendition.path \o "/" \o highestRendition.playlist

\* variant of recordingStartedMetadata with the stream-id gate of line 114:
\* master key and start time only when the recorded stream is the active one
recordingStartedMetadata_Gated(desc, activeStream, headers) ==
  LET same == activeStream # <<>> /\ activeStream[1].streamId = desc.streamId
  IN [isChannelLive |-> <<IsChannelLive(activeStream)>>,
      livePlaybackUrl |-> <<LivePlaybackUrl(activeStream)>>,
      channelId |-> <<desc.channelId>>,
      sourcePosition |-> <<sourcePosition(desc.channel_arn,
                                          headers["overview-channel-arn"],
                                          headers["instruments-channel-arn"],
                                          headers["capt-channel-arn"],
                                          headers["fo-channel-arn"])>>,
      masterKey |-> IF same THEN <<MasterKey(desc.media.hls)>> ELSE <<>>,
      recordingStartedAt |-> IF same THEN <<desc.recording_started_at>> ELSE <<>>,
      playlistDuration |-> <<>>]

\* lines 106-116: the object before the duration probe; a field holding <<>>
\* is undefined
recordingStartedMetadata(desc, activeStream, headers) ==
  [isChannelLive |-> <<IsChannelLive(activeStream)>>,
   livePlaybackUrl |-> <<LivePlaybackUrl(activeStream)>>,
   channelId |-> <<desc.channelId>>,
   sourcePosition |-> <<sourcePosition(desc.channel_arn,
                                       headers["overview-channel-arn"],
                                       headers["instruments-channel-arn"],
                                       headers["capt-channel-arn"],
                                       headers["fo-channel-arn"])>>,
   masterKey |-> <<MasterKey(desc.media.hls)>>,
   recordingStartedAt |-> <<desc.recording_started_at>>,
   playlistDuration |-> <<>>]

\* JSON.stringify of an object: properties holding undefined are left out
JSONStringify(obj) ==
  JsonObject([f \in {g \in DOMAIN obj : obj[g] # <<>>} |-> obj[f][1]])

\* (.+)$ with the m flag: the characters up to the first LineTerminator, or
\* up to the end of the text
LineRest(s) ==
  LET ends == {i \in 1..Len(s) : s[i] \in LineTerminators}
  IN IF ends = {} THEN s
     ELSE SubSeq(s, 1, (CHOOSE i \in ends : \A j \in ends : i <= j) - 1)

\* textBody.match(/EXT-X-TWITCH-TOTAL-SECS:(.+)$/m)?.[1]
RECURSIVE TotalSecsMatch(_)
TotalSecsMatch(text) ==
  LET i == IndexOf(text, TOTAL_SECS)
  IN IF i = 0 THEN <<>>
     ELSE LET capture == LineRest(SubSeq(text, i + Len(TOTAL_SECS), Len(text)))
          IN IF capture # <<>> THEN <<capture>>
             ELSE TotalSecsMatch(SubSeq(text, i + 1, Len(text)))

\* the digits of radix 10 and of radix 16
IsDigit(c) == c \in {"0", "1", "2", "3", "4", "5", "6", "7", "8", "9"}
IsHexDigit(c) ==
  IsDigit(c) \/ c \in {"a", "b", "c", "d", "e", "f", "A", "B", "C", "D", "E", "F"}

DigitValue(c) ==
  CASE c = "0" -> 0 [] c = "1" -> 1 [] c = "2" -> 2 [] c = "3" -> 3 [] c = "4" -> 4
    [] c = "5" -> 5 [] c = "6" -> 6 [] c = "7" -> 7 [] c = "8" -> 8 [] c = "9" -> 9
    [] c \in {"a", "A"} -> 10 [] c \in {"b", "B"} -> 11 [] c \in {"c", "C"} -> 12
    [] c \in {"d", "D"} -> 13 [] c \in {"e", "E"} -> 14 [] c \in {"f", "F"} -> 15

IsRadixDigit(c, radix) == IF radix = 16 THEN IsHexDigit(c) ELSE IsDigit(c)

\* the value of the longest run of digits of the radix at the start of s
RECURSIVE LeadingDigits(_, _, _)
LeadingDigits(s, radix, acc) ==
  IF s # <<>> /\ IsRadixDigit(Head(s), radix)
    THEN LeadingDigits(Tail(s), radix, radix * acc + DigitValue(Head(s)))
    ELSE acc

\* parseInt(match) without a radix: leading white space, a sign, a "0x" or
\* "0X" prefix for radix 16, then the leading digits; NaN (<<>>) when there
\* is no digit
ParseInt(str) ==
  LET t == TrimStart(str)
      signed == t # <<>> /\ Head(t) \in {"-", "+"}
      u == IF signed THEN Tail(t) ELSE t
      hex == Len(u) >= 2 /\ u[1] = "0" /\ u[2] \in {"x", "X"}
      radix == IF hex THEN 16 ELSE 10
      z == IF hex THEN SubSeq(u, 3, Len(u)) ELSE u
  IN IF z = <<>> \/ ~IsRadixDigit(Head(z), radix) THEN <<>>
     ELSE <<(IF signed /\ Head(t) = "-" THEN -1 ELSE 1) * LeadingDigits(z, radix, 0)>>

\* JSON.stringify turns NaN into null
NumberToJson(num) == IF num = <<>> THEN JsonNull ELSE JsonNumber(num[1])

\* lines 118-133: the object after the duration probe
WithPlaylistDuration(metadata, result) ==
  IF result.ok /\ TotalSecsMatch(result.body) # <<>>
    THEN [metadata EXCEPT
            !.playlistDuration = <<NumberToJson(ParseInt(TotalSecsMatch(result.body)[1]))>>]
    ELSE metadata

\* lines 136-140
MetadataResponse(metadata) ==
  createResponse(200, <<JSONStringify(metadata)>>, <<"application/json">>, 1)

\* variant of MetadataCatch that reports the missing descriptor as 404
MetadataCatch_NotFound(error) ==
  IF isS3Error(error) /\ error.Code = "NoSuchKey"
    THEN createResponse(404, <<>>, <<>>, 1)
    ELSE createResponse(500, <<>>, <<>>, 1)

\* lines 141-152
MetadataCatch(error) ==
  IF isS3Error(error) /\ error.Code = "NoSuchKey"
    THEN createResponse(200, <<JsonNull>>, <<>>, 1)
    ELSE createResponse(500, <<>>, <<>>, 1)

\* lines 51-66: read the configuration headers, issue
\* getS3Object(key, bucketName) and suspend at the await
MD_ReadConfig ==
  /\ handler = "metadata" /\ pc = "start"
  /\ IF HeadersPresent(event.headers, MetadataHeaderNames)
       THEN /\ calls' = Append(calls, Call("getS3Object", Key(event.uri)))
            /\ pc' = "await_fetch"
            /\ UNCHANGED thrown
       ELSE /\ thrown' = TypeError
            /\ pc' = "done"
            /\ UNCHANGED calls
  /\ UNCHANGED <<handler, event, channelArn, now, s3obj, live, meta, probe, answered,
                 response>>

\* lines 66-77, 141-152: getS3Object answers; the descriptor is parsed and
\* getActiveStream(channelArn) is issued, a thrown error goes to the catch
MD_GetS3Object ==
  /\ handler = "metadata" /\ pc = "await_fetch"
  /\ answered' = answered + 1
  /\ \E res \in {S3Fail(e) : e \in S3Errors} \cup {S3Ok(b, <<>>) : b \in DescriptorBodies} :
       /\ s3obj' = res
       /\ IF ~res.ok
            THEN /\ response' = MetadataCatch(res.error)
                 /\ pc' = "done"
                 /\ UNCHANGED calls
            ELSE IF ~ParseDescriptor(res.body).ok
              THEN /\ response' = MetadataCatch(ParseDescriptor(res.body).error)
                   /\ pc' = "done"
                   /\ UNCHANGED calls
              ELSE /\ calls' = Append(calls, Call("getActiveStream", res.body.value.channel_arn))
                   /\ pc' = "await_stream"
                   /\ UNCHANGED response
  /\ UNCHANGED <<handler, event, channelArn, now, live, meta, probe, thrown>>

\* lines 77-152: getActiveStream answers; the base object is built and the
\* rendition playlist is requested.  With an empty rendition list
\* highestRendition is undefined, reading its path throws inside the inner
\* try before any fetch, and the response follows in the same step.
MD_GetActiveStream ==
  /\ handler = "metadata" /\ pc = "await_stream"
  /\ answered' = answered + 1
  /\ \E res \in StreamResults :
       /\ live' = res
       /\ IF res.ok
            THEN LET hls == s3obj.body.value.media.hls
                     metadata == recordingStartedMetadata(s3obj.body.value, res.stream,
                                                          event.headers)
                 IN /\ meta' = metadata
                    /\ IF hls.renditions = <<>>
                         THEN /\ response' = MetadataResponse(metadata)
                              /\ pc' = "done"
                              /\ UNCHANGED calls
                         ELSE /\ calls' = Append(calls,
                                   Call("getS3Object", RenditionKey(hls, hls.renditions[1])))
                              /\ pc' = "await_probe"
                              /\ UNCHANGED response
            ELSE /\ response' = MetadataCatch(res.error)
                 /\ pc' = "done"
                 /\ UNCHANGED <<meta, calls>>
  /\ UNCHANGED <<handler, event, channelArn, now, s3obj, probe, thrown>>

\* lines 121-140: the rendition getS3Object answers; the best-effort duration
\* probe and the response
MD_Probe ==
  /\ handler = "metadata" /\ pc = "await_probe"
  /\ answered' = answered + 1
  /\ \E res \in {S3Fail(e) : e \in S3Errors} \cup {S3Ok(t, <<>>) : t \in RenditionTexts} :
       /\ probe' = res
       /\ meta' = WithPlaylistDuration(meta, res)
       /\ response' = MetadataResponse(WithPlaylistDuration(meta, res))
  /\ pc' = "done"
  /\ UNCHANGED <<handler, event, channelArn, now, s3obj, live, calls, thrown>>

\* the invocation is over; the next origin request starts from scratch
Return ==
  /\ pc = "done"
  /\ pc' = "idle"
  /\ handler' = "none"
  /\ event' = NoEvent
  /\ channelArn' = <<>>
  /\ now' = 0
  /\ s3obj' = NoObject
  /\ live' = NoStreamResult
  /\ meta' = NoMetadata
  /\ probe' = NoObject
  /\ calls' = <<>>
  /\ answered' = 0
  /\ thrown' = NoError
  /\ response' = NoResponse

Next ==
  \/ \E h \in {"playlist", "metadata"}, ev \in Events : Invoke(h, ev)
  \/ PL_ReadConfig
  \/ PL_GetS3Object
  \/ PL_GetActiveStream
  \/ MD_ReadConfig
  \/ MD_GetS3Object
  \/ MD_GetActiveStream
  \/ MD_Probe
  \/ Return

Spec == Init /\ [][Next]_vars

(***************************************************************************)
(* Vocabulary of the properties                                             *)
(***************************************************************************)
PlaylistDone == handler = "playlist" /\ pc = "done"
MetadataDone == handler = "metadata" /\ pc = "done"

\* the primary getS3Object was issued and returned an object
FetchSucceeded == answered >= 1 /\ s3obj.ok
\* the primary getS3Object was issued and threw
FetchFailed == answered >= 1 /\ ~s3obj.ok
\* getActiveStream was issued and returned (a stream or nothing)
LivenessSucceeded == live.ok
\* getActiveStream was issued and threw
LivenessFailed == ~live.ok /\ live.error # NoError
\* the liveness query reported a stream in the 'stream live' state
ReportedLive == live.ok /\ live.stream # <<>> /\ live.stream[1].state = "LIVE"

\* age = now - lastModified, an absent LastModified counting as the epoch
Age == now - (IF s3obj.LastModified = <<>> THEN 0 ELSE s3obj.LastModified[1])

\* a status 200 response of the metadata handler with a non-null body
MetadataObjectResponse ==
  /\ MetadataDone /\ thrown = NoError
  /\ response.status = 200
  /\ response.body # <<>> /\ response.body[1].json = "object"

(***************************************************************************)
(* Properties                                                               *)
(***************************************************************************)
\* C1: in the playlist handler, when the fetch succeeds with age >= 32s and
\* the liveness query succeeds, a live channel gives status 200 with max-age
\* 0, and no stream or any other state gives status 200 with the fetched body
\* unchanged and max-age 31536000; no other response carries the one-year
\* max-age.
C1_StaleDecision ==
  /\ (PlaylistDone /\ FetchSucceeded /\ Age >= 32000 /\ LivenessSucceeded) =>
        IF ReportedLive
          THEN response.status = 200 /\ response.maxAge = 0
          ELSE /\ response.status = 200
               /\ response.body = <<s3obj.body>>
               /\ response.maxAge = 31536000
  /\ response.maxAge = 31536000 =>
        /\ PlaylistDone /\ FetchSucceeded /\ Age >= 32000
        /\ LivenessSucceeded /\ ~ReportedLive

\* C1 witness: a final playlist that keeps its end-of-list marker for a year,
\* the channel reporting a stream that is not live
C1_Witness ==
  /\ PlaylistDone /\ FetchSucceeded /\ Age >= 32000
  /\ LivenessSucceeded /\ live.stream # <<>> /\ ~ReportedLive
  /\ HasEndlist(s3obj.body)
  /\ response.body = <<s3obj.body>>
  /\ response.maxAge = 31536000

\* C2: in the playlist handler, when the fetch succeeds with age < 32s, the
\* response is status 200 with an integer max-age, 0 <= max-age < 30.
C2_FreshMaxAgeBelow30 ==
  (PlaylistDone /\ FetchSucceeded /\ Age < 32000) =>
     /\ response.status = 200
     /\ response.maxAge \in Int
     /\ 0 <= response.maxAge /\ response.maxAge < 30

\* C3: the body returned by the fresh branch and by the stale-and-live branch
\* contains no occurrence of #EXT-X-ENDLIST, whatever the fetched body.
C3_NoEndlistInOpenPlaylist ==
  (PlaylistDone /\ FetchSucceeded /\ (Age < 32000 \/ ReportedLive)) =>
     /\ response.body # <<>>
     /\ \A i \in 1..(Len(response.body[1]) - 13) :
          SubSeq(response.body[1], i, i + 13) # ENDLIST

\* C4: in the metadata handler, a descriptor fetch failing with NoSuchKey
\* gives status 200, body JSON null, max-age 1 (never 404 or 500), and no
\* liveness query or rendition fetch is issued.
C4_MissingDescriptorIsNull ==
  (MetadataDone /\ FetchFailed /\ s3obj.error.Code = "NoSuchKey") =>
     /\ response.status = 200
     /\ response.body = <<JsonNull>>
     /\ response.maxAge = 1
     /\ Len(calls) = 1 /\ calls[1].op = "getS3Object"

\* C4 witness: the descriptor fetch threw NoSuchKey and the handler returned
C4_Witness ==
  /\ MetadataDone /\ FetchFailed /\ s3obj.error.Code = "NoSuchKey"
  /\ response.status = 200

\* C5: a failed primary fetch (other than NoSuchKey of the descriptor), a
\* descriptor that does not parse, or a failed liveness query is fatal: the
\* playlist handler answers 500 with max-age 0, the metadata handler 500 with
\* max-age 1; a failed liveness query never leads to a status 200 response.
C5_FailuresAreFatal ==
  /\ (PlaylistDone /\ (FetchFailed \/ LivenessFailed)) =>
        response.status = 500 /\ response.maxAge = 0
  /\ (MetadataDone /\ ( (FetchFailed /\ s3obj.error.Code # "NoSuchKey")
                        \/ (FetchSucceeded /\ s3obj.body.json # "object")
                        \/ LivenessFailed )) =>
        response.status = 500 /\ response.maxAge = 1
  /\ LivenessFailed => response.status # 200 /\ response.maxAge # 31536000

\* C5 witness: the liveness query of the playlist handler threw for a stale
\* playlist and the handler returned
C5_Witness ==
  /\ PlaylistDone /\ FetchSucceeded /\ Age >= 32000 /\ LivenessFailed
  /\ response.status = 500

\* C5 witness, metadata handler: the descriptor does not parse
C5_WitnessParse ==
  /\ MetadataDone /\ FetchSucceeded /\ s3obj.body.json = "invalid"
  /\ response.status = 500

\* the descriptor the metadata handler parsed
Desc == s3obj.body.value

\* the duration probe did not produce a duration: empty rendition list,
\* rendition fetch error, or no matching marker
ProbeFailed == "playlistDuration" \notin DOMAIN response.body[1].value

\* the first role, in the order Overview, Instruments, Captain, FO, whose
\* configured ARN equals the ARN; UNKNOWN when there is none
RoleHeaders ==
  <<"overview-channel-arn", "instruments-channel-arn", "capt-channel-arn", "fo-channel-arn">>
RoleNames == <<"OVERVIEW", "INSTRUMENTS", "CAPTAIN", "FO">>

FirstRole(arn, headers) ==
  LET matching == {i \in 1..4 : headers[RoleHeaders[i]] = arn}
  IN IF matching = {} THEN "UNKNOWN"
     ELSE RoleNames[CHOOSE i \in matching : \A j \in matching : i <= j]

\* C6: every status 200 response of the metadata handler with a non-null body
\* carries isChannelLive, livePlaybackUrl, channelId, sourcePosition,
\* masterKey (master path "/" master playlist) and recordingStartedAt, with
\* values fixed by the descriptor, the role map and the liveness result alone,
\* whether or not the duration probe succeeds and whether or not the recorded
\* stream id is the active one; only playlistDuration may be absent, and once
\* the liveness query has succeeded the status is 200 whatever the probe does.
C6_ProbeLeavesPayloadAlone ==
  /\ MetadataObjectResponse =>
       LET obj == response.body[1].value
       IN /\ {"isChannelLive", "livePlaybackUrl", "channelId", "sourcePosition",
              "masterKey", "recordingStartedAt"} \subseteq DOMAIN obj
          /\ DOMAIN obj \subseteq
               {"isChannelLive", "livePlaybackUrl", "channelId", "sourcePosition",
                "masterKey", "recordingStartedAt", "playlistDuration"}
          /\ obj.isChannelLive = ReportedLive
          /\ obj.livePlaybackUrl = (IF ReportedLive THEN live.stream[1].playbackUrl ELSE "")
          /\ obj.channelId = Desc.channelId
          /\ obj.sourcePosition = FirstRole(Desc.channel_arn, event.headers)
          /\ obj.masterKey = Desc.media.hls.path \o "/" \o Desc.media.hls.playlist
          /\ obj.recordingStartedAt = Desc.recording_started_at
  /\ (MetadataDone /\ FetchSucceeded /\ s3obj.body.json = "object" /\ LivenessSucceeded) =>
       MetadataObjectResponse

\* C6 witness: the rendition fetch threw and the descriptor's stream is not
\* the active stream, yet the response is 200 with master key and start time
C6_Witness ==
  /\ MetadataObjectResponse
  /\ ProbeFailed /\ ~probe.ok /\ probe.error.Code = "NoSuchKey"
  /\ live.stream # <<>> /\ live.stream[1].streamId # Desc.streamId
  /\ "masterKey" \in DOMAIN response.body[1].value

\* C7: isChannelLive is true exactly when the liveness query returned a
\* stream in the 'stream live' state, and livePlaybackUrl is that stream's
\* playback URL when live and the empty string otherwise, also when a
\* non-live stream came with a playback URL.
C7_LiveUrlOnlyWhenLive ==
  MetadataObjectResponse =>
    LET obj == response.body[1].value
    IN /\ obj.isChannelLive = (live.stream # <<>> /\ live.stream[1].state = "LIVE")
       /\ obj.isChannelLive => obj.livePlaybackUrl = live.stream[1].playbackUrl
       /\ ~obj.isChannelLive => obj.livePlaybackUrl = ""

\* C7 witness: a stream that is not live came with a playback URL
C7_Witness ==
  /\ MetadataObjectResponse
  /\ live.stream # <<>> /\ live.stream[1].state # "LIVE"
  /\ live.stream[1].playbackUrl # ""
  /\ response.body[1].value.livePlaybackUrl = ""

\* C8: for every origin request that carries the configuration headers the
\* stack attaches to the origin, the playlist handler ends by returning a
\* response with status 200 or 500, never by an uncaught exception.
C8_PlaylistAlwaysResponds ==
  (PlaylistDone /\ StackHeaderNames \subseteq DOMAIN event.headers) =>
     thrown = NoError /\ response.status \in {200, 500}

\* C9: when the fetched playlist's last-modified time is later than now, the
\* response is the one for the same playlist with last-modified time equal to
\* now (age 0).
C9_NegativeAgeIsZero ==
  (PlaylistDone /\ FetchSucceeded /\ s3obj.LastModified # <<>>
     /\ s3obj.LastModified[1] > now) =>
     response = FreshResponse(s3obj.body, TimeSinceLastModified(now, <<now>>))

\* the first of the four role ARNs the playlist handler holds, in the order
\* overview, second role, captain, FO, whose channel id is a path segment
PlaylistRoleHeaders ==
  <<"overview-channel-arn", "screens-channel-arn", "capt-channel-arn", "fo-channel-arn">>

IdIsPathSegment(arn, path) ==
  LET parts == Split(arn, "/")
      segments == Split(path, "/")
  IN Len(parts) >= 2 /\ \E k \in 1..Len(segments) : segments[k] = parts[2]

FirstArnInPath(path, headers) ==
  LET matching == {i \in 1..4 : IdIsPathSegment(headers[PlaylistRoleHeaders[i]], path)}
  IN IF matching = {} THEN <<>>
     ELSE headers[PlaylistRoleHeaders[CHOOSE i \in matching : \A j \in matching : i <= j]]

\* C10: channel identity resolution is total and first-match-wins: the
\* metadata handler's sourcePosition is one of OVERVIEW, INSTRUMENTS, CAPTAIN,
\* FO, UNKNOWN, the first role in that order whose configured ARN equals the
\* descriptor's ARN and UNKNOWN when none does; the playlist handler queries
\* the ARN of the first role in the same order whose channel id is a segment
\* of the path.
C10_FirstMatchWins ==
  /\ MetadataObjectResponse =>
       /\ response.body[1].value.sourcePosition
            \in {"OVERVIEW", "INSTRUMENTS", "CAPTAIN", "FO", "UNKNOWN"}
       /\ response.body[1].value.sourcePosition = FirstRole(Desc.channel_arn, event.headers)
  /\ (handler = "playlist" /\ pc \in {"await_fetch", "await_stream", "done"} /\ thrown = NoError) =>
       channelArn = FirstArnInPath(event.path, event.headers)
  /\ (handler = "playlist" /\ Len(calls) >= 2) =>
       calls[2] = Call("getActiveStream", FirstArnInPath(event.path, event.headers))

\* C10 witness: Instruments and Captain are configured with the descriptor's
\* ARN and the earlier role is reported
C10_Witness ==
  /\ MetadataObjectResponse
  /\ event.headers["overview-channel-arn"] # Desc.channel_arn
  /\ event.headers["instruments-channel-arn"] = Desc.channel_arn
  /\ event.headers["capt-channel-arn"] = Desc.channel_arn
  /\ response.body[1].value.sourcePosition = "INSTRUMENTS"

\* C10 witness, playlist handler: the path holds the channel ids of two
\* roles and the liveness query goes to the earlier role
C10_WitnessPlaylist ==
  /\ handler = "playlist" /\ Len(calls) >= 2
  /\ IdIsPathSegment(event.headers["overview-channel-arn"], event.path)
  /\ IdIsPathSegment(event.headers["screens-channel-arn"], event.path)
  /\ event.headers["overview-channel-arn"] # event.headers["screens-channel-arn"]
  /\ calls[2].arg = event.headers["overview-channel-arn"]

\* the operations of the calls issued so far, in order
CallOps == [i \in 1..Len(calls) |-> calls[i].op]

\* q is an initial part of r
IsPrefix(q, r) == Len(q) <= Len(r) /\ \A i \in 1..Len(q) : q[i] = r[i]

\* the calls that are issued and not yet answered
InFlight == Len(calls) - answered

\* the calls issued so far are the handler's calls in their order, each
\* after the success of the one before, and at most one of them is waiting
\* for its answer
CallsInOrder ==
  /\ InFlight \in {0, 1}
  /\ handler = "metadata" =>
       /\ IsPrefix(CallOps, <<"getS3Object", "getActiveStream", "getS3Object">>)
       /\ Len(calls) >= 2 => s3obj.ok /\ s3obj.body.json = "object"
       /\ Len(calls) >= 3 => live.ok
  /\ handler = "playlist" =>
       /\ IsPrefix(CallOps, <<"getS3Object", "getActiveStream">>)
       /\ Len(calls) >= 2 => s3obj.ok /\ Age >= 32000
  /\ handler = "none" => calls = <<>>

\* a step of an invocation issues at most one call and takes none back; it
\* issues a call only when every earlier call has been answered, and an
\* answer is the answer to the one call in flight
OneCallPerStep ==
  pc # "done" =>
    /\ Len(calls') <= Len(calls) + 1 /\ IsPrefix(calls, calls')
    /\ Len(calls') > Len(calls) => answered' = Len(calls)
    /\ answered' \in {answered, answered + 1}
    /\ answered' > answered => InFlight = 1

\* C11: within one invocation the external calls are sequential, each issued
\* at most once, and a later call is issued only after the earlier one
\* was answered and succeeded: the metadata handler issues descriptor fetch,
\* liveness query, then at most one rendition fetch; the playlist handler
\* issues the playlist fetch and then at most one liveness query, and only
\* when age >= 32s.
C11_CallsSequential == []CallsInOrder /\ [][OneCallPerStep]_vars

\* C11 witness: the metadata handler has issued its three calls in order
C11_Witness ==
  /\ MetadataDone
  /\ CallOps = <<"getS3Object", "getActiveStream", "getS3Object">>
  /\ s3obj.ok /\ live.ok

\* C11 witness, suspended handler: the liveness query is in flight after
\* the answered fetch of a stale playlist
C11_WitnessInFlight ==
  /\ handler = "playlist" /\ pc = "await_stream"
  /\ CallOps = <<"getS3Object", "getActiveStream">>
  /\ answered = 1 /\ InFlight = 1
  /\ s3obj.ok /\ Age >= 32000

\* C11 witness, playlist handler: a fresh playlist answered without a
\* liveness query
C11_WitnessFresh ==
  /\ PlaylistDone /\ FetchSucceeded /\ Age >= 30000 /\ Age < 32000
  /\ CallOps = <<"getS3Object">>
  /\ response.status = 200

\* C12: in the fresh branch of the playlist handler, for 0 <= age <= 30s the
\* max-age is floor((30s - age) / 1s), so that now + max-age does not pass
\* lastModified + 30s; for 30s < age < 32s the max-age is 0.
C12_CacheUntilNextRewrite ==
  (PlaylistDone /\ FetchSucceeded /\ s3obj.LastModified # <<>>) =>
     /\ (0 <= Age /\ Age <= 30000) =>
          /\ response.status = 200
          /\ response.maxAge = (30000 - Age) \div 1000
          /\ now + 1000 * response.maxAge <= s3obj.LastModified[1] + 30000
     /\ (30000 < Age /\ Age < 32000) =>
          response.status = 200 /\ response.maxAge = 0

\* C12 witness: a playlist last modified 10 seconds ago is cached 20 seconds
C12_Witness ==
  /\ PlaylistDone /\ FetchSucceeded /\ Age = 10000
  /\ response.maxAge = 20

\* C12 witness, past the rewrite time but inside the write buffer
C12_WitnessBuffer ==
  /\ PlaylistDone /\ FetchSucceeded /\ Age = 31999
  /\ response.maxAge = 0

(***************************************************************************)
(* The string operations on the inputs the handlers meet with CRLF line     *)
(* ends, tabs and hexadecimal text                                          *)
(***************************************************************************)
StringOperationExamples ==
  /\ Trim(<<"a", "\t">>) = <<"a">>
  /\ Trim(<<"\t", "a">>) = <<"a">>
  /\ Trim(<<"\f", "a", "\r", "\n">>) = <<"a">>
  /\ removeEndlist(<<"a", "\r", "\n">> \o ENDLIST \o <<"\r", "\n">>) = <<"a">>
  /\ LineRest(<<"1", "2", "\r", "\n", "#">>) = <<"1", "2">>
  /\ LineRest(<<"\r">>) = <<>>
  /\ TotalSecsMatch(TOTAL_SECS \o <<"1", "2", "\r", "\n", "#">>) = <<<<"1", "2">>>>
  /\ TotalSecsMatch(TOTAL_SECS \o <<"\r", "\n">> \o TOTAL_SECS \o <<"9", "\r", "\n">>)
       = <<<<"9">>>>
  /\ TotalSecsMatch(TOTAL_SECS \o <<"\r">>) = <<>>
  /\ ParseInt(<<"0", "x", "1", "F">>) = <<31>>
  /\ ParseInt(<<"0", "X", "1", "0">>) = <<16>>
  /\ ParseInt(<<"-", "0", "x", "1", "0">>) = <<-16>>
  /\ ParseInt(<<"0", "x">>) = <<>>
  /\ ParseInt(<<"\t", "5">>) = <<5>>
  /\ ParseInt(<<"\r", "7">>) = <<7>>
  /\ ParseInt(<<"7", ".", "5">>) = <<7>>
  /\ ParseInt(<<"x">>) = <<>>
====
